---- MODULE Spec2Model ----
(***************************************************************************)
(* Eligibility validation engine of the registration platform:             *)
(* validateExternalApi / executeEligibilityCheck and their helpers, as     *)
(* implemented in server/routes/mock-eligibility.ts (lines 92-337).        *)
(* One behaviour is one call executeEligibilityCheck(athlete, rules); the  *)
(* external endpoint (answers, network errors, silence, bodies) is the     *)
(* environment.                                                            *)
(***************************************************************************)
EXTENDS Integers, Sequences, FiniteSets, TLC

VARIABLES
  athlete,        \* AthleteData argument (only cpf matters to the control flow)
  rules,          \* EligibilityRule[] argument
  pc,             \* position of the async call chain
  activeRules,    \* executeEligibilityCheck: const activeRules
  idx,            \* executeEligibilityCheck: position of the for..of loop (1-based)
  eligible,       \* executeEligibilityCheck: let eligible
  messages,       \* executeEligibilityCheck: const messages
  extractedData,  \* executeEligibilityCheck: let extractedData
  timerArmed,     \* validateExternalApi: timeoutId is pending (setTimeout .. clearTimeout / firing)
  inFlight,       \* validateExternalApi: fetch() issued and not yet settled
  response,       \* validateExternalApi: what the endpoint did for the current call
  vres,           \* validateExternalApi: the value the call resolved to
  issued,         \* rules for which fetch() has been called, in call order
  outcomes,       \* the `result` of each validateExternalApi call of the loop, in order
  emitted,        \* console lines written by the last step
  request,        \* validateExternalApi: the request handed to fetch() by the current call
  result,         \* the EligibilityResult the check resolved to
  receipt,        \* receipt route: one GET /:registrationId request and its handler
  page            \* organizer registrations page: the useState values and the loaded list

vars == <<athlete, rules, pc, activeRules, idx, eligible, messages, extractedData,
          timerArmed, inFlight, response, vres, issued, outcomes, emitted, request,
          result, receipt, page>>

\* ---------------------------------------------------------------------------
\* Bounds of the model
\* ---------------------------------------------------------------------------
\* longest rule list handed to executeEligibilityCheck under Spec
MaxRules == 2

\* ---------------------------------------------------------------------------
\* JSON values (response bodies, validation.value).  Every value has the same
\* shape so that values of different JavaScript types can be compared.
\* ---------------------------------------------------------------------------
Sc(t, s) == [t |-> t, s |-> s, kids |-> <<>>]
Obj(f) == [t |-> "obj", s |-> "", kids |-> f]
Undefined == Sc("undefined", "")
JNull == Sc("null", "")
JTrue == Sc("bool", "true")
JFalse == Sc("bool", "false")
JStr(s) == Sc("str", s)
JNum(s) == Sc("num", s)

\* JavaScript truthiness of a JSON value (`responseData && ...`)
Truthy(v) ==
  ~ \/ v.t \in {"undefined", "null"}
    \/ (v.t = "bool" /\ v.s = "false")
    \/ (v.t = "num" /\ v.s = "0")
    \/ (v.t = "str" /\ v.s = "")

\* JavaScript `a === b`: same type and same value; an object is only equal to
\* itself, and a parsed body is never the configured object.
StrictEquals(a, b) ==
  /\ a.t # "obj"
  /\ b.t # "obj"
  /\ a.t = b.t
  /\ a.s = b.s

\* current[key] for a non-null current
GetProp(current, key) ==
  IF current.t = "obj" /\ key \in DOMAIN current.kids
    THEN current.kids[key]
    ELSE Undefined

\* path.split('.').reduce(...): `path` is the list of segments
RECURSIVE getNestedValue(_, _)
getNestedValue(obj, path) ==
  IF path = <<>> THEN obj
  ELSE LET current == getNestedValue(obj, SubSeq(path, 1, Len(path) - 1))
           key == path[Len(path)]
       IN IF current.t # "undefined" /\ current.t # "null"
            THEN GetProp(current, key)
            ELSE Undefined

\* variant: every field is kept, also the ones that resolve to undefined
extractFields_KeepsUndefined(data, fields) ==
  [p \in {fields[i] : i \in 1..Len(fields)} |-> getNestedValue(data, p)]

\* extractFields(data, fields): the map of the fields that resolve to a defined value
extractFields(data, fields) ==
  LET kept == {i \in 1..Len(fields) : getNestedValue(data, fields[i]).t # "undefined"}
  IN [p \in {fields[i] : i \in kept} |-> getNestedValue(data, p)]

\* ---------------------------------------------------------------------------
\* Strings of the identity number, as sequences of characters
\* ---------------------------------------------------------------------------
Digits == {"0", "1", "2", "3", "4", "5", "6", "7", "8", "9"}
IsDigit(c) == c \in Digits
StripNonDigits(s) == SelectSeq(s, IsDigit)

CpfThrow == <<"T", "y", "p", "e", "E", "r", "r", "o", "r">>
FullMask == <<"*","*","*",".","*","*","*",".","*","*","*","-","*","*">>

\* maskCpf(cpf): cpf.replace throws a TypeError when cpf is null/undefined
maskCpf(cpf) ==
  IF cpf.t # "str" THEN [threw |-> TRUE, out |-> CpfThrow]
  ELSE LET digits == StripNonDigits(cpf.chars)
       IN IF Len(digits) < 11
            THEN [threw |-> FALSE, out |-> FullMask]
            ELSE [threw |-> FALSE,
                  out |-> SubSeq(digits, 1, 3)
                            \o <<".","*","*","*",".","*","*","*",".">>
                            \o SubSeq(digits, 10, 11)]

\* ---------------------------------------------------------------------------
\* Inputs: athlete records and rule configurations
\* ---------------------------------------------------------------------------
\* an optional array field of a rule (absent, or the configured list)
Missing == [def |-> FALSE, v |-> <<>>]
Given(v) == [def |-> TRUE, v |-> v]

CpfPunctuated == <<"1","2","3",".","4","5","6",".","7","8","9","-","0","0">>
\* the same number typed with blanks, and a number cut short
CpfSpaced == <<"1","2","3"," ","4","5","6"," ","7","8","9"," ","0","0">>
CpfShort == <<"1","2","3">>
CpfString(chars) == [t |-> "str", chars |-> chars]
NoField == [t |-> "undefined", chars |-> <<>>]
Nome == CpfString(<<"A","."," ","B","-","c">>)
\* an athlete row whose cpf column is NULL (the receipt and organizer pages
\* declare cpf as string | null)
CpfNull == [t |-> "null", chars |-> <<>>]
Athletes ==
  {[cpf |-> c, nome |-> Nome] :
     c \in {CpfString(CpfPunctuated), CpfString(CpfSpaced), CpfString(CpfShort), CpfNull}}

Advisory == "Validacao externa temporariamente indisponivel, inscricao permitida."
Fallback == "Erro inesperado na validacao externa."

\* property names and header names, as strings of characters
Kcpf == <<"c","p","f">>
Knome == <<"n","o","m","e">>
HAccept == <<"A","c","c","e","p","t">>
HContentType == <<"C","o","n","t","e","n","t","-","T","y","p","e">>
HXApiKey == <<"X","-","A","P","I","-","K","e","y">>
HAuthorization == <<"A","u","t","h","o","r","i","z","a","t","i","o","n">>
HTrace == <<"X","-","T","r","a","c","e">>
QApiKey == <<"a","p","i","_","k","e","y">>
ApplicationJson == <<"a","p","p","l","i","c","a","t","i","o","n","/","j","s","o","n">>
TextPlain == <<"t","e","x","t","/","p","l","a","i","n">>
BearerPrefix == <<"B","e","a","r","e","r"," ">>

UrlTemplate == <<"h","t","t","p","s",":","/","/","x","/","{","c","p","f","}">>
UrlQuery == <<"h","t","t","p","s",":","/","/","x","/","v","?","n","=","{","n","o","m","e","}","&","c","=","{","c","p","f","}">>
UrlTwice == <<"h","t","t","p","s",":","/","/","x","/","{","c","p","f","}","/","y","/","{","c","p","f","}">>
NoUrl == <<>>
FieldNome == <<"nome">>
PathApto == <<"apto">>

\* request.auth: absent, or {type, key_name, key_value}; <<>> is the unset/empty string
NoAuth == [def |-> FALSE, type |-> "none", key_name |-> <<>>, key_value |-> <<>>]
Auth(type, keyName, keyValue) ==
  [def |-> TRUE, type |-> type, key_name |-> keyName, key_value |-> keyValue]

Rule(type, enabled, url, params, mode, allowed, path, value, onError, errorMessage, saveFields) ==
  [type |-> type,
   enabled |-> enabled,
   request |-> [url |-> url, method |-> "GET", params |-> params, headers |-> Missing,
               auth |-> NoAuth],
   validation |-> [mode |-> mode, allowed_status |-> allowed, path |-> path, value |-> value],
   on_error |-> onError,
   error_message |-> errorMessage,
   save_fields |-> saveFields]

AllowedLists == {Missing, Given(<<200, 201>>), Given(<<200, 404, 500>>)}
Expected == {JTrue, JStr("true")}
OnErrors == {"block", "allow", ""}
ErrorMessages == {"", "E1"}
SaveLists == {<<>>, <<FieldNome>>}
ParamLists == {Given(<<Kcpf>>), Missing}

\* every configuration of one active api_rest rule
StatusRules ==
  {Rule("api_rest", TRUE, UrlTemplate, p, "http_status", a, Missing, Undefined, oe, em, sf) :
     p \in ParamLists, a \in AllowedLists, oe \in OnErrors, em \in ErrorMessages, sf \in SaveLists}
CompareRules ==
  {Rule("api_rest", TRUE, UrlTemplate, p, "json_compare", Missing, Given(PathApto), e, oe, em, sf) :
     p \in ParamLists, e \in Expected, oe \in OnErrors, em \in ErrorMessages, sf \in SaveLists}
ActiveRuleConfigs == StatusRules \cup CompareRules

\* the request side of a rule: url, method, params, headers, auth
WithRequest(r, url, method, params, headers, auth) ==
  [r EXCEPT !.request = [url |-> url, method |-> method, params |-> params,
                         headers |-> headers, auth |-> auth]]
KeyName == <<"X","-","K","e","y">>
KeyNameSpaced == <<"a","p","p"," ","k","e","y">>
KeyValue == <<"s","3","/","c","r","=","t">>
TraceHeaders == [k \in {HTrace, HAccept} |-> IF k = HTrace THEN <<"1">> ELSE TextPlain]
Auths ==
  {NoAuth} \cup
  {Auth(t, n, v) : t \in {"none", "api_key_header", "api_key_query", "bearer_token", "basic"},
                   n \in {<<>>, KeyName, KeyNameSpaced},
                   v \in {<<>>, KeyValue}}
RequestBase == Rule("api_rest", TRUE, UrlTemplate, Given(<<Kcpf>>), "http_status", Missing, Missing, Undefined, "block", "E1", <<>>)
RequestRules ==
  {WithRequest(RequestBase, u, m, p, h, a) :
     u \in {UrlTemplate, UrlQuery},
     m \in {"", "GET", "POST"},
     p \in {Given(<<Kcpf>>), Given(<<Kcpf, Knome>>)},
     h \in {Missing, Given(TraceHeaders)},
     a \in Auths}

\* a rule whose template names the cpf twice
TwiceRule == WithRequest(RequestBase, UrlTwice, "GET", Given(<<Kcpf>>), Missing, NoAuth)

\* rules that keep three fields of the body, one of them nested
PathPlanoId == <<"plano", "id">>
ExtractRules ==
  {Rule("api_rest", TRUE, UrlTemplate, Given(<<Kcpf>>), m, Missing, Given(PathApto), JTrue, "block", "E1",
        <<FieldNome, PathApto, PathPlanoId>>) :
     m \in {"http_status", "json_compare"}}

\* rules that compare the cpf field of the body (the mock endpoint of lines
\* 41-61 answers with the cpf it was asked about, digits only)
CpfDigitsText == "12345678900"
PathCpf == <<"cpf">>
EchoRules ==
  {Rule("api_rest", TRUE, UrlTemplate, Given(<<Kcpf>>), "json_compare", Missing, Given(PathCpf), e, "block", "E1", <<>>) :
     e \in {JStr(CpfDigitsText), JTrue}}

\* the rules that make up the longer lists
RuleA == Rule("api_rest", TRUE, UrlTemplate, Given(<<Kcpf>>), "http_status", Missing, Missing, Undefined, "block", "E1", <<FieldNome>>)
RuleB == Rule("api_rest", TRUE, UrlTemplate, Given(<<Kcpf>>), "json_compare", Missing, Given(PathApto), JTrue, "allow", "E2", <<>>)
RuleC == Rule("api_rest", TRUE, UrlTemplate, Given(<<Kcpf>>), "http_status", Missing, Missing, Undefined, "block", "", <<>>)
Disabled(r) == [r EXCEPT !.enabled = FALSE]
WithoutUrl(r) == [r EXCEPT !.request.url = NoUrl]
OfType(r, t) == [r EXCEPT !.type = t]
ListRules == {RuleA, RuleB, RuleC, Disabled(RuleA), WithoutUrl(RuleB), OfType(RuleA, "whitelist")}
InactiveRuleConfigs == {Disabled(RuleA), WithoutUrl(RuleB), OfType(RuleA, "whitelist"), Disabled(RuleC)}

SeqsUpTo(S, n) == UNION {[1..k -> S] : k \in 0..n}
RuleLists ==
  SeqsUpTo(ListRules, MaxRules)
    \cup SeqsUpTo(ActiveRuleConfigs \cup InactiveRuleConfigs \cup RequestRules \cup EchoRules
                   \cup ExtractRules \cup {TwiceRule}, 1)

\* what the external endpoint can answer
Statuses == {200, 201, 404, 500}
BodyOk == Obj([apto |-> JTrue, nome |-> JStr("Ana"), plano |-> Obj([id |-> JNum("7")])])
BodyStr == Obj([apto |-> JStr("true"), nome |-> JStr("Bia"), plano |-> JNull])
BodyNoApto == Obj([nome |-> JStr("Caio")])
BodyEcho == Obj([cpf |-> JStr(CpfDigitsText), apto |-> JTrue, nome |-> JStr("Ana")])
Bodies == {JNull, BodyOk, BodyStr, BodyNoApto, BodyEcho}

\* ---------------------------------------------------------------------------
\* validateExternalApi: the synchronous stretches between two awaits.  Each
\* yields what happens next: the call returns `res`, the exception escapes
\* the call (throw), or the call awaits response.json() (await_json).
\* ---------------------------------------------------------------------------
NoData == [def |-> FALSE, map |-> <<>>]
Data(m) == [def |-> TRUE, map |-> m]
Res(ok, message, data) == [ok |-> ok, message |-> message, extractedData |-> data]
NoRes == Res(TRUE, "", NoData)

Line(level, cpfShown, value) == [level |-> level, cpf |-> cpfShown, value |-> value]
Returns(res, lines) == [kind |-> "return", res |-> res, lines |-> lines]
Throws == [kind |-> "throw", res |-> NoRes, lines |-> <<>>]
AwaitsJson == [kind |-> "await_json", res |-> NoRes, lines |-> <<>>]

\* variant: the policy is never read, every failure blocks
OnErrorResult_AlwaysBlocks(ruleConfig) ==
  Res(FALSE,
      IF ruleConfig.error_message # "" THEN ruleConfig.error_message ELSE Fallback,
      NoData)

\* variant: no fallback text when error_message is unset
OnErrorResult_NoFallback(ruleConfig) ==
  IF ruleConfig.on_error = "allow"
    THEN Res(TRUE, Advisory, NoData)
    ELSE Res(FALSE, ruleConfig.error_message, NoData)

\* the three-line on_error tail shared by every infrastructure-failure branch
OnErrorResult(ruleConfig) ==
  IF ruleConfig.on_error = "allow"
    THEN Res(TRUE, Advisory, NoData)
    ELSE Res(FALSE,
             IF ruleConfig.error_message # "" THEN ruleConfig.error_message ELSE Fallback,
             NoData)

\* catch (error) { console.error(... maskCpf(athleteData.cpf) ...); on_error tail }
\* an exception raised inside the handler leaves the function
OuterCatch(ruleConfig, athleteData) ==
  LET m == maskCpf(athleteData.cpf)
  IN IF m.threw THEN Throws
     ELSE Returns(OnErrorResult(ruleConfig), <<Line("error", m.out, Undefined)>>)

\* console.<level>(`... ${maskCpf(athleteData.cpf)} ...`); return res  -- inside the try
LogThenReturn(ruleConfig, athleteData, level, value, res) ==
  LET m == maskCpf(athleteData.cpf)
  IN IF m.threw THEN OuterCatch(ruleConfig, athleteData)
     ELSE Returns(res, <<Line(level, m.out, value)>>)

Range(s) == {s[i] : i \in DOMAIN s}

\* variant: the configured list is never read
AllowedStatuses_IgnoresConfig(ruleConfig) == <<200>>

\* line 271: ruleConfig.validation.allowed_status || [200]
AllowedStatuses(ruleConfig) ==
  IF ruleConfig.validation.allowed_status.def
    THEN ruleConfig.validation.allowed_status.v
    ELSE <<200>>

\* lines 266-293: extraction and verdict, once responseData is settled
Verdict(ruleConfig, athleteData, status, responseData) ==
  LET saveFields == ruleConfig.save_fields
      extracted == IF Truthy(responseData) /\ Len(saveFields) > 0
                     THEN Data(extractFields(responseData, saveFields))
                     ELSE NoData
      allowedStatuses == AllowedStatuses(ruleConfig)
      fieldPath == IF ruleConfig.validation.path.def
                     THEN ruleConfig.validation.path.v
                     ELSE <<"">>
      expectedValue == ruleConfig.validation.value
      actualValue == getNestedValue(responseData, fieldPath)
  IN IF ruleConfig.validation.mode = "http_status"
       THEN IF status \in Range(allowedStatuses)
              THEN LogThenReturn(ruleConfig, athleteData, "log", Undefined,
                                 Res(TRUE, "", extracted))
              ELSE LogThenReturn(ruleConfig, athleteData, "log", Undefined,
                                 Res(FALSE, ruleConfig.error_message, NoData))
     ELSE IF ruleConfig.validation.mode = "json_compare" /\ Truthy(responseData)
       THEN IF StrictEquals(actualValue, expectedValue)
              THEN LogThenReturn(ruleConfig, athleteData, "log", actualValue,
                                 Res(TRUE, "", extracted))
              ELSE LogThenReturn(ruleConfig, athleteData, "log", actualValue,
                                 Res(FALSE, ruleConfig.error_message, NoData))
     ELSE Returns(Res(TRUE, "", extracted), <<>>)

\* lines 186-216: parameter map, URL, headers, timer, fetch options.  The
\* for..of over request.params throws when params is absent.
SetupThrows(ruleConfig) == ~ ruleConfig.request.params.def

\* lines 221-231: catch (fetchError)
AfterFetchRejects(ruleConfig, athleteData) ==
  LogThenReturn(ruleConfig, athleteData, "error", Undefined, OnErrorResult(ruleConfig))

NeedsJson(ruleConfig) ==
  ruleConfig.validation.mode = "json_compare" \/ Len(ruleConfig.save_fields) > 0

\* variant: no special case for 404
AfterFetchResolves_No404(ruleConfig, athleteData, status) ==
  IF status >= 500
    THEN LogThenReturn(ruleConfig, athleteData, "error", Undefined, OnErrorResult(ruleConfig))
  ELSE IF NeedsJson(ruleConfig)
    THEN AwaitsJson
  ELSE Verdict(ruleConfig, athleteData, status, JNull)

\* lines 235-264 up to the await of response.json()
AfterFetchResolves(ruleConfig, athleteData, status) ==
  IF status = 404
    THEN LogThenReturn(ruleConfig, athleteData, "log", Undefined,
                       Res(FALSE, ruleConfig.error_message, NoData))
  ELSE IF status >= 500
    THEN LogThenReturn(ruleConfig, athleteData, "error", Undefined, OnErrorResult(ruleConfig))
  ELSE IF NeedsJson(ruleConfig)
    THEN AwaitsJson
  ELSE Verdict(ruleConfig, athleteData, status, JNull)

\* variant: a body that does not parse is an infrastructure failure in every mode
AfterJsonRejects_AlwaysInfra(ruleConfig, athleteData, status) ==
  LogThenReturn(ruleConfig, athleteData, "error", Undefined, OnErrorResult(ruleConfig))

\* lines 254-263: catch (parseError), then on to the verdict with responseData = null
AfterJsonRejects(ruleConfig, athleteData, status) ==
  IF ruleConfig.validation.mode = "json_compare"
    THEN LogThenReturn(ruleConfig, athleteData, "error", Undefined, OnErrorResult(ruleConfig))
    ELSE LET v == Verdict(ruleConfig, athleteData, status, JNull)
         IN [v EXCEPT !.lines = <<Line("warn", <<>>, Undefined)>> \o v.lines]

AfterJsonResolves(ruleConfig, athleteData, status, body) ==
  Verdict(ruleConfig, athleteData, status, body)

\* ---------------------------------------------------------------------------
\* services/eligibility-service.ts: the other validateExternalApi, as a
\* function of the rule, the athlete and what the endpoint does (`outcome`
\* has the shape of `response`: how fetch ended, the status, the body)
\* ---------------------------------------------------------------------------
\* lines 105-116 of the service: the comparison, made for every parsed body
ServiceCompare(ruleConfig, athleteData, data) ==
  LET fieldPath == IF ruleConfig.validation.path.def
                     THEN ruleConfig.validation.path.v
                     ELSE <<"">>
      actualValue == getNestedValue(data, fieldPath)
  IN IF StrictEquals(actualValue, ruleConfig.validation.value)
       THEN LogThenReturn(ruleConfig, athleteData, "log", actualValue, Res(TRUE, "", NoData))
       ELSE LogThenReturn(ruleConfig, athleteData, "log", actualValue,
                          Res(FALSE, ruleConfig.error_message, NoData))

\* lines 37-134 of the service
ServiceValidateExternalApi(ruleConfig, athleteData, outcome) ==
  IF SetupThrows(ruleConfig) THEN OuterCatch(ruleConfig, athleteData)
  ELSE IF outcome.kind \in {"network", "timeout"}
    THEN LogThenReturn(ruleConfig, athleteData, "error", Undefined, OnErrorResult(ruleConfig))
  ELSE IF outcome.status = 404
    THEN LogThenReturn(ruleConfig, athleteData, "log", Undefined,
                       Res(FALSE, ruleConfig.error_message, NoData))
  ELSE IF outcome.status >= 500
    THEN LogThenReturn(ruleConfig, athleteData, "error", Undefined, OnErrorResult(ruleConfig))
  ELSE IF ruleConfig.validation.mode = "http_status"
    THEN IF outcome.status \in Range(AllowedStatuses(ruleConfig))
           THEN LogThenReturn(ruleConfig, athleteData, "log", Undefined, Res(TRUE, "", NoData))
           ELSE LogThenReturn(ruleConfig, athleteData, "log", Undefined,
                              Res(FALSE, ruleConfig.error_message, NoData))
  ELSE IF ruleConfig.validation.mode = "json_compare"
    THEN IF outcome.body.kind = "json"
           THEN ServiceCompare(ruleConfig, athleteData, outcome.body.v)
           ELSE LogThenReturn(ruleConfig, athleteData, "error", Undefined,
                              OnErrorResult(ruleConfig))
  ELSE Returns(Res(TRUE, "", NoData), <<>>)

\* ---------------------------------------------------------------------------
\* State machine
\* ---------------------------------------------------------------------------
NoBody == [kind |-> "none", v |-> Undefined]
NoResponse == [kind |-> "none", status |-> 0, body |-> NoBody]
NoEntries == [def |-> FALSE, entries |-> <<>>]
NoRequest ==
  [set |-> FALSE, rawUrl |-> <<>>, url |-> <<>>, method |-> "", baseHeaders |-> <<>>,
   authHeaders |-> <<>>, headers |-> <<>>, headersRef |-> "", body |-> NoEntries,
   warned |-> FALSE]
\* no receipt request
NoReceipt ==
  [pc |-> "idle", athleteId |-> "", registration |-> [found |-> FALSE, athleteId |-> "", status |-> "", tamanhoCamisa |-> ""],
   piped |-> FALSE, sent |-> <<>>, error |-> "none"]

\* the registration classes of the page's event, and the page at mount
\* (part_001 lines 171-179, before the list is loaded)
Classes ==
  {[status |-> "confirmada", modalityName |-> "5k", nome |-> "ana"],
   [status |-> "pendente", modalityName |-> "5k", nome |-> "bia"],
   [status |-> "confirmada", modalityName |-> "10k", nome |-> "ana"]}
InitialPage ==
  [registrations |-> [c \in Classes |-> 0],
   searchTerm |-> "", statusFilter |-> "todos", modalityFilter |-> "todos",
   currentPage |-> 1, itemsPerPage |-> 20,
   sortColumn |-> "numeroInscricao", sortDirection |-> "desc"]

NoResult == [set |-> FALSE, eligible |-> TRUE, messages |-> <<>>, extractedData |-> NoData]
EligibilityResult(e, m, d) == [set |-> TRUE, eligible |-> e, messages |-> m, extractedData |-> d]

Init ==
  /\ athlete \in Athletes
  /\ rules \in RuleLists
  /\ pc = "start"
  /\ activeRules = <<>>
  /\ idx = 0
  /\ eligible = TRUE
  /\ messages = <<>>
  /\ extractedData = <<>>
  /\ timerArmed = FALSE
  /\ inFlight = FALSE
  /\ response = NoResponse
  /\ vres = NoRes
  /\ issued = <<>>
  /\ outcomes = <<>>
  /\ emitted = <<>>
  /\ request = NoRequest
  /\ result = NoResult
  /\ receipt = NoReceipt
  /\ page = InitialPage

\* variant: the enabled flag is not tested
IsActive_IgnoresEnabled(r) == r.request.url # NoUrl

\* variant: the url is not tested
IsActive_IgnoresUrl(r) == r.enabled

\* rules.filter(r => r.enabled && r.request?.url)
IsActive(r) == r.enabled /\ r.request.url # NoUrl

\* lines 307-315
ExecuteStart ==
  /\ pc = "start"
  /\ LET active == SelectSeq(rules, IsActive)
     IN /\ activeRules' = active
        /\ IF Len(active) = 0
             THEN /\ result' = EligibilityResult(TRUE, <<>>, NoData)
                  /\ pc' = "done"
                  /\ idx' = idx
             ELSE /\ result' = result
                  /\ pc' = "loop"
                  /\ idx' = 1
  /\ eligible' = TRUE
  /\ messages' = <<>>
  /\ extractedData' = <<>>
  /\ emitted' = <<>>
  /\ UNCHANGED <<athlete, rules, timerArmed, inFlight, response, vres, issued, outcomes,
                 request>>
  /\ UNCHANGED <<receipt, page>>

\* lines 332-336, after the last rule
ReturnResult ==
  /\ pc = "loop"
  /\ idx > Len(activeRules)
  /\ result' = EligibilityResult(eligible, messages,
                 IF DOMAIN extractedData # {} THEN Data(extractedData) ELSE NoData)
  /\ pc' = "done"
  /\ emitted' = <<>>
  /\ UNCHANGED <<athlete, rules, activeRules, idx, eligible, messages, extractedData,
                 timerArmed, inFlight, response, vres, issued, outcomes, request>>
  /\ UNCHANGED <<receipt, page>>

\* line 318, a rule of another type: nothing is done for it
SkipRule ==
  /\ pc = "loop"
  /\ idx <= Len(activeRules)
  /\ activeRules[idx].type # "api_rest"
  /\ idx' = idx + 1
  /\ emitted' = <<>>
  /\ UNCHANGED <<athlete, rules, pc, activeRules, eligible, messages, extractedData,
                 timerArmed, inFlight, response, vres, issued, outcomes, request,
                 result>>
  /\ UNCHANGED <<receipt, page>>

\* how a synchronous stretch of validateExternalApi ends
Settle(step) ==
  /\ emitted' = step.lines
  /\ vres' = step.res
  /\ pc' = CASE step.kind = "return" -> "returned"
             [] step.kind = "throw" -> "rejected"
             [] OTHER -> "json"

\* ---------------------------------------------------------------------------
\* The request: sanitizeUrl, applyAuth and lines 186-216 of validateExternalApi
\* ---------------------------------------------------------------------------
\* the characters encodeURIComponent leaves alone
Unreserved ==
  {"A", "B", "C", "D", "E", "F", "G", "H", "I", "J", "K", "L", "M", "N", "O", "P", "Q", "R", "S", "T", "U", "V", "W", "X", "Y", "Z", "a", "b", "c", "d", "e", "f", "g", "h", "i", "j", "k", "l", "m", "n", "o", "p", "q", "r", "s", "t", "u", "v", "w", "x", "y", "z", "0", "1", "2", "3", "4", "5", "6", "7", "8", "9", "-", "_", ".", "!", "~", "*", "'", "(", ")"}

\* the escape of one character outside Unreserved (ASCII)
PercentCode(c) ==
  CASE c = " " -> <<"%","2","0">>
    [] c = "/" -> <<"%","2","F">>
    [] c = "?" -> <<"%","3","F">>
    [] c = "&" -> <<"%","2","6">>
    [] c = "=" -> <<"%","3","D">>
    [] c = ":" -> <<"%","3","A">>
    [] c = "{" -> <<"%","7","B">>
    [] c = "}" -> <<"%","7","D">>
    [] c = "#" -> <<"%","2","3">>
    [] c = "+" -> <<"%","2","B">>
    [] c = "$" -> <<"%","2","4">>
    [] c = "@" -> <<"%","4","0">>
    [] c = "," -> <<"%","2","C">>
    [] c = ";" -> <<"%","3","B">>
    [] c = "%" -> <<"%","2","5">>
    [] OTHER -> <<"%", "?", "?">>

RECURSIVE encodeURIComponent(_)
encodeURIComponent(str) ==
  IF str = <<>> THEN <<>>
  ELSE (IF Head(str) \in Unreserved THEN <<Head(str)>> ELSE PercentCode(Head(str)))
         \o encodeURIComponent(Tail(str))

\* str.indexOf(pattern), 1-based; 0 when the pattern does not occur
IndexOf(str, pattern) ==
  LET hits == {i \in 1..(Len(str) - Len(pattern) + 1) :
                 SubSeq(str, i, i + Len(pattern) - 1) = pattern}
  IN IF hits = {} THEN 0 ELSE CHOOSE i \in hits : \A j \in hits : i <= j

\* str.replace(pattern, replacement) with a string pattern: the first
\* occurrence only (the replacement never holds a "$", it is percent-encoded)
StringReplace(str, pattern, replacement) ==
  LET i == IndexOf(str, pattern)
  IN IF i = 0 THEN str
     ELSE SubSeq(str, 1, i - 1) \o replacement \o SubSeq(str, i + Len(pattern), Len(str))

\* line 147: url.includes('?')
Includes(str, c) == \E i \in DOMAIN str : str[i] = c

\* line 117: value.replace(/[.\-]/g, '')
NotDotOrHyphen(c) == c \notin {".", "-"}
StripDotsAndHyphens(value) == SelectSeq(value, NotDotOrHyphen)

\* variant: every non-digit is removed from the cpf value
SanitizedValue_DigitsOnly(key, value) ==
  IF key = Kcpf THEN StripNonDigits(value) ELSE value

\* line 117
SanitizedValue(key, value) ==
  IF key = Kcpf THEN StripDotsAndHyphens(value) ELSE value

\* lines 114-121; params is Object.entries(params), in insertion order
RECURSIVE sanitizeUrl(_, _)
sanitizeUrl(baseUrl, params) ==
  IF params = <<>> THEN baseUrl
  ELSE LET url == sanitizeUrl(baseUrl, SubSeq(params, 1, Len(params) - 1))
           entry == params[Len(params)]
       IN StringReplace(url, <<"{">> \o entry.key \o <<"}">>,
                        encodeURIComponent(SanitizedValue(entry.key, entry.value)))

\* line 188: (athleteData as any)[param]
AthleteField(athleteData, param) ==
  IF param = Kcpf THEN athleteData.cpf
  ELSE IF param = Knome THEN athleteData.nome
  ELSE NoField

\* line 190: paramValues[param] = String(value)
SetEntry(entries, key, value) ==
  IF \E i \in DOMAIN entries : entries[i].key = key
    THEN [i \in DOMAIN entries |->
            IF entries[i].key = key THEN [key |-> key, value |-> value] ELSE entries[i]]
    ELSE Append(entries, [key |-> key, value |-> value])

\* lines 186-192
RECURSIVE ParamValues(_, _)
ParamValues(params, athleteData) ==
  IF params = <<>> THEN <<>>
  ELSE LET before == ParamValues(SubSeq(params, 1, Len(params) - 1), athleteData)
           param == params[Len(params)]
           value == AthleteField(athleteData, param)
       IN IF value.t = "str" THEN SetEntry(before, param, value.chars) ELSE before

\* { ...headers, [name]: value }
Assign(map, name, value) ==
  [k \in DOMAIN map \cup {name} |-> IF k = name THEN value ELSE map[k]]

\* A headers object is the identity of the object (ref) with its content
\* (map).  "config" is the object ruleConfig.request.headers itself.
HeadersObject(ref, map) == [ref |-> ref, map |-> map]
ConfigHeaders(ruleConfig) ==
  IF ruleConfig.request.headers.def THEN ruleConfig.request.headers.v ELSE <<>>

\* variant: Accept is assigned into the configured object instead of a copy
BaseHeaders_Aliased(ruleConfig) ==
  IF ruleConfig.request.headers.def
    THEN HeadersObject("config", Assign(ConfigHeaders(ruleConfig), HAccept, ApplicationJson))
    ELSE HeadersObject("base", Assign(<<>>, HAccept, ApplicationJson))

\* lines 196-199: a new object, Accept first, the configured headers over it
BaseHeaders(ruleConfig) ==
  HeadersObject("base",
    [k \in {HAccept} \cup DOMAIN ConfigHeaders(ruleConfig) |->
       IF k \in DOMAIN ConfigHeaders(ruleConfig)
         THEN ConfigHeaders(ruleConfig)[k] ELSE ApplicationJson])

AuthResult(url, headers, warned) == [url |-> url, headers |-> headers, warned |-> warned]

\* variant: the parameter name goes into the query string as configured
QueryParam_RawName(paramName, keyValue) ==
  paramName \o <<"=">> \o encodeURIComponent(keyValue)

\* line 150: `${encodeURIComponent(paramName)}=${encodeURIComponent(keyValue)}`
QueryParam(paramName, keyValue) ==
  encodeURIComponent(paramName) \o <<"=">> \o encodeURIComponent(keyValue)

\* variant: the empty key value is not tested, the scheme is applied with it
applyAuth_NoKeyCheck(url, headers, auth) ==
  IF ~ auth.def \/ auth.type = "none" THEN AuthResult(url, headers, FALSE)
  ELSE CASE auth.type = "api_key_header" ->
              AuthResult(url,
                         HeadersObject("auth",
                           Assign(headers.map,
                                  IF auth.key_name # <<>> THEN auth.key_name ELSE HXApiKey,
                                  auth.key_value)),
                         FALSE)
         [] auth.type = "api_key_query" ->
              AuthResult(url \o (IF Includes(url, "?") THEN <<"&">> ELSE <<"?">>)
                             \o QueryParam(IF auth.key_name # <<>> THEN auth.key_name
                                                                   ELSE QApiKey,
                                           auth.key_value),
                         headers, FALSE)
         [] auth.type = "bearer_token" ->
              AuthResult(url,
                         HeadersObject("auth",
                           Assign(headers.map, HAuthorization,
                                  BearerPrefix \o auth.key_value)),
                         FALSE)
         [] OTHER -> AuthResult(url, headers, FALSE)

\* lines 123-162
applyAuth(url, headers, auth) ==
  IF ~ auth.def \/ auth.type = "none" THEN AuthResult(url, headers, FALSE)
  ELSE LET keyName == auth.key_name
           keyValue == auth.key_value
       IN IF keyValue = <<>> THEN AuthResult(url, headers, TRUE)
          ELSE CASE auth.type = "api_key_header" ->
                      AuthResult(url,
                                 HeadersObject("auth",
                                   Assign(headers.map,
                                          IF keyName # <<>> THEN keyName ELSE HXApiKey,
                                          keyValue)),
                                 FALSE)
                 [] auth.type = "api_key_query" ->
                      LET separator == IF Includes(url, "?") THEN <<"&">> ELSE <<"?">>
                          paramName == IF keyName # <<>> THEN keyName ELSE QApiKey
                      IN AuthResult(url \o separator \o QueryParam(paramName, keyValue),
                                    headers, FALSE)
                 [] auth.type = "bearer_token" ->
                      AuthResult(url,
                                 HeadersObject("auth",
                                   Assign(headers.map, HAuthorization,
                                          BearerPrefix \o keyValue)),
                                 FALSE)
                 [] OTHER -> AuthResult(url, headers, FALSE)

\* lines 186-216: the arguments of fetch(finalUrl, fetchOptions)
BuildRequest(ruleConfig, athleteData) ==
  LET paramValues == ParamValues(ruleConfig.request.params.v, athleteData)
      rawUrl == sanitizeUrl(ruleConfig.request.url, paramValues)
      baseHeaders == BaseHeaders(ruleConfig)
      authed == applyAuth(rawUrl, baseHeaders, ruleConfig.request.auth)
      method == IF ruleConfig.request.method # "" THEN ruleConfig.request.method ELSE "GET"
  IN [set |-> TRUE,
      rawUrl |-> rawUrl,
      url |-> authed.url,
      method |-> method,
      baseHeaders |-> baseHeaders.map,
      authHeaders |-> authed.headers.map,
      headers |-> IF method = "POST"
                    THEN Assign(authed.headers.map, HContentType, ApplicationJson)
                    ELSE authed.headers.map,
      headersRef |-> authed.headers.ref,
      body |-> IF method = "POST"
                 THEN [def |-> TRUE, entries |-> paramValues]
                 ELSE NoEntries,
      warned |-> authed.warned]

\* lines 185-220: validateExternalApi(ruleConfig, athlete) up to the await of fetch
\* Rule objects are shared by `rules` and `activeRules` (filter copies the
\* references): a write into the headers object of the rule is a write into
\* activeRules[idx].
StartCall(ruleConfig) ==
  IF SetupThrows(ruleConfig)
    THEN /\ Settle(OuterCatch(ruleConfig, athlete))
         /\ response' = [NoResponse EXCEPT !.kind = "exception"]
         /\ UNCHANGED <<activeRules, timerArmed, inFlight, issued, request>>
    ELSE LET built == BuildRequest(ruleConfig, athlete)
         IN /\ request' = built
            /\ activeRules' =
                 IF built.headersRef = "config"
                   THEN [activeRules EXCEPT ![idx].request.headers.v = built.headers]
                   ELSE activeRules
            /\ timerArmed' = TRUE
            /\ inFlight' = TRUE
            /\ issued' = Append(issued, ruleConfig)
            /\ response' = NoResponse
            /\ pc' = "fetch"
            /\ emitted' = IF built.warned
                            THEN <<Line("warn", <<>>, Undefined)>> ELSE <<>>
            /\ vres' = NoRes

\* variant: the call of the next rule is started while the request of the
\* current one is still in flight (the result is not awaited)
CallValidate_NotAwaited ==
  \/ /\ pc = "loop"
     /\ idx <= Len(activeRules)
     /\ activeRules[idx].type = "api_rest"
     /\ StartCall(activeRules[idx])
     /\ UNCHANGED <<athlete, rules, idx, eligible, messages, extractedData,
                    outcomes, result>>
     /\ UNCHANGED <<receipt, page>>
  \/ /\ pc = "fetch"
     /\ idx < Len(activeRules)
     /\ activeRules[idx + 1].type = "api_rest"
     /\ ~ SetupThrows(activeRules[idx + 1])
     /\ issued' = Append(issued, activeRules[idx + 1])
     /\ idx' = idx + 1
     /\ UNCHANGED <<athlete, rules, pc, activeRules, eligible, messages, extractedData,
                    timerArmed, inFlight, response, vres, outcomes, emitted, request,
                    result>>
     /\ UNCHANGED <<receipt, page>>

\* line 319: const result = await validateExternalApi(rule, athleteData)
CallValidate ==
  /\ pc = "loop"
  /\ idx <= Len(activeRules)
  /\ activeRules[idx].type = "api_rest"
  /\ StartCall(activeRules[idx])
  /\ UNCHANGED <<athlete, rules, idx, eligible, messages, extractedData,
                 outcomes, result>>
  /\ UNCHANGED <<receipt, page>>

\* the endpoint answers with a status line: fetch resolves, lines 233-264
FetchResolves(status) ==
  /\ pc = "fetch"
  /\ inFlight
  /\ inFlight' = FALSE
  /\ timerArmed' = FALSE
  /\ response' = [kind |-> "status", status |-> status, body |-> NoBody]
  /\ Settle(AfterFetchResolves(activeRules[idx], athlete, status))
  /\ UNCHANGED <<athlete, rules, activeRules, idx, eligible, messages, extractedData,
                 issued, outcomes, request, result>>
  /\ UNCHANGED <<receipt, page>>

\* variant: the catch of lines 221-231 does not call clearTimeout
FetchRejects_KeepsTimer ==
  /\ pc = "fetch"
  /\ inFlight
  /\ inFlight' = FALSE
  /\ timerArmed' = timerArmed
  /\ response' = [NoResponse EXCEPT !.kind = "network"]
  /\ Settle(AfterFetchRejects(activeRules[idx], athlete))
  /\ UNCHANGED <<athlete, rules, activeRules, idx, eligible, messages, extractedData,
                 issued, outcomes, request, result>>
  /\ UNCHANGED <<receipt, page>>

\* the connection fails: fetch rejects with a TypeError, lines 221-231
FetchRejects ==
  /\ pc = "fetch"
  /\ inFlight
  /\ inFlight' = FALSE
  /\ timerArmed' = FALSE
  /\ response' = [NoResponse EXCEPT !.kind = "network"]
  /\ Settle(AfterFetchRejects(activeRules[idx], athlete))
  /\ UNCHANGED <<athlete, rules, activeRules, idx, eligible, messages, extractedData,
                 issued, outcomes, request, result>>
  /\ UNCHANGED <<receipt, page>>

\* line 204: the timer fires, controller.abort() makes fetch reject with an
\* AbortError, lines 221-231
TimerFires ==
  /\ timerArmed
  /\ pc = "fetch"
  /\ inFlight' = FALSE
  /\ timerArmed' = FALSE
  /\ response' = [NoResponse EXCEPT !.kind = "timeout"]
  /\ Settle(AfterFetchRejects(activeRules[idx], athlete))
  /\ UNCHANGED <<athlete, rules, activeRules, idx, eligible, messages, extractedData,
                 issued, outcomes, request, result>>
  /\ UNCHANGED <<receipt, page>>

\* line 253: response.json() resolves with the parsed body
JsonResolves(body) ==
  /\ pc = "json"
  /\ response' = [response EXCEPT !.body = [kind |-> "json", v |-> body]]
  /\ Settle(AfterJsonResolves(activeRules[idx], athlete, response.status, body))
  /\ UNCHANGED <<athlete, rules, activeRules, idx, eligible, messages, extractedData,
                 timerArmed, inFlight, issued, outcomes, request, result>>
  /\ UNCHANGED <<receipt, page>>

\* line 254: response.json() rejects (the body is not JSON, or the stream breaks)
JsonRejects ==
  /\ pc = "json"
  /\ response' = [response EXCEPT !.body = [kind |-> "unparsable", v |-> Undefined]]
  /\ Settle(AfterJsonRejects(activeRules[idx], athlete, response.status))
  /\ UNCHANGED <<athlete, rules, activeRules, idx, eligible, messages, extractedData,
                 timerArmed, inFlight, issued, outcomes, request, result>>
  /\ UNCHANGED <<receipt, page>>

\* variant: every message is kept, also the advisory one of a passing rule
NextMessages_AnyMessage(msgs, res) ==
  IF res.message # "" THEN Append(msgs, res.message) ELSE msgs

\* lines 320-324: messages.push(result.message) of a failing rule
NextMessages(msgs, res) ==
  IF ~ res.ok /\ res.message # "" THEN Append(msgs, res.message) ELSE msgs

\* variant: the verdict of the last rule overwrites the earlier ones
NextEligible_LastWins(e, res) == res.ok

\* lines 320-321: eligible = false on a failing rule
NextEligible(e, res) == IF ~ res.ok THEN FALSE ELSE e

\* variant: the spread operands are swapped, the earlier value is kept
Merge_EarlierWins(old, new) ==
  [k \in DOMAIN old \cup DOMAIN new |-> IF k \in DOMAIN old THEN old[k] ELSE new[k]]

\* lines 326-328: { ...extractedData, ...result.extractedData }
Merge(old, new) ==
  [k \in DOMAIN old \cup DOMAIN new |-> IF k \in DOMAIN new THEN new[k] ELSE old[k]]

NextExtracted(data, res) ==
  IF res.extractedData.def THEN Merge(data, res.extractedData.map) ELSE data

\* variant: the loop is left at the first failing rule
Accumulate_StopsAtFailure ==
  /\ pc = "returned"
  /\ eligible' = NextEligible(eligible, vres)
  /\ messages' = NextMessages(messages, vres)
  /\ extractedData' = NextExtracted(extractedData, vres)
  /\ outcomes' = Append(outcomes,
                   [rule |-> activeRules[idx], ok |-> vres.ok, message |-> vres.message,
                    extractedData |-> vres.extractedData,
                    cause |-> [kind |-> response.kind, status |-> response.status,
                               body |-> response.body.kind]])
  /\ idx' = IF vres.ok THEN idx + 1 ELSE Len(activeRules) + 1
  /\ pc' = "loop"
  /\ response' = NoResponse
  /\ vres' = NoRes
  /\ emitted' = <<>>
  /\ request' = NoRequest
  /\ UNCHANGED <<athlete, rules, activeRules, timerArmed, inFlight, issued, result>>
  /\ UNCHANGED <<receipt, page>>

\* lines 319-329: the awaited result is folded into the accumulators
Accumulate ==
  /\ pc = "returned"
  /\ eligible' = NextEligible(eligible, vres)
  /\ messages' = NextMessages(messages, vres)
  /\ extractedData' = NextExtracted(extractedData, vres)
  /\ outcomes' = Append(outcomes,
                   [rule |-> activeRules[idx], ok |-> vres.ok, message |-> vres.message,
                    extractedData |-> vres.extractedData,
                    cause |-> [kind |-> response.kind, status |-> response.status,
                               body |-> response.body.kind]])
  /\ idx' = idx + 1
  /\ pc' = "loop"
  /\ response' = NoResponse
  /\ vres' = NoRes
  /\ emitted' = <<>>
  /\ request' = NoRequest
  /\ UNCHANGED <<athlete, rules, activeRules, timerArmed, inFlight, issued, result>>
  /\ UNCHANGED <<receipt, page>>

Next ==
  \/ ExecuteStart
  \/ ReturnResult
  \/ SkipRule
  \/ CallValidate
  \/ \E status \in Statuses : FetchResolves(status)
  \/ FetchRejects
  \/ TimerFires
  \/ \E body \in Bodies : JsonResolves(body)
  \/ JsonRejects
  \/ Accumulate

Spec == Init /\ [][Next]_vars

\* The calls checked for termination: lists of the three kinds of rule
FairRules == {RuleA, RuleB, OfType(RuleA, "whitelist")}
InitFair == Init /\ rules \in SeqsUpTo(FairRules, MaxRules)

\* the steps the program takes by itself once they are ready
Continue == ExecuteStart \/ ReturnResult \/ SkipRule \/ CallValidate \/ Accumulate

\* The event loop runs every continuation that is ready and fires every armed
\* timer (line 204); the endpoint owes nothing: it may never answer and may
\* never finish a body.
FairSpec ==
  /\ InitFair
  /\ [][Next]_vars
  /\ WF_vars(Continue)
  /\ WF_vars(TimerFires)

\* ---------------------------------------------------------------------------
\* Receipt route (part_000): GET /:registrationId.  `receipt` is one request:
\* the session's athleteId ("" when there is none), the stored registration,
\* where the handler stands (pc is the await it is suspended at), whether
\* doc.pipe(res) was called, what has gone out to the client (sent), and the
\* stage whose failure entered the catch.
\* ---------------------------------------------------------------------------
engine == <<athlete, rules, pc, activeRules, idx, eligible, messages, extractedData,
            timerArmed, inFlight, response, vres, issued, outcomes, emitted, request,
            result>>

\* no eligibility check in progress
EngineIdle ==
  /\ athlete = [cpf |-> CpfNull, nome |-> Nome]
  /\ rules = <<>>
  /\ pc = "start"
  /\ activeRules = <<>>
  /\ idx = 0
  /\ eligible = TRUE
  /\ messages = <<>>
  /\ extractedData = <<>>
  /\ timerArmed = FALSE
  /\ inFlight = FALSE
  /\ response = NoResponse
  /\ vres = NoRes
  /\ issued = <<>>
  /\ outcomes = <<>>
  /\ emitted = <<>>
  /\ request = NoRequest
  /\ result = NoResult

\* res.status(status).json({success: false, ...}), and the head of the PDF
\* stream (an implicit 200 with the headers of lines 124-128)
Json(status) == [status |-> status, body |-> "json"]
Pdf == [status |-> 200, body |-> "pdf"]

StoredRegistrations ==
  {NoReceipt.registration} \cup
  {[found |-> TRUE, athleteId |-> a, status |-> st, tamanhoCamisa |-> t] :
     a \in {"a1", "a2"}, st \in {"confirmada", "pendente", "cancelada"}, t \in {"", "M"}}
ReceiptRequests ==
  {[NoReceipt EXCEPT !.pc = "start", !.athleteId = a, !.registration = r] :
     a \in {"", "a1", "a2"}, r \in StoredRegistrations}

ReceiptInit ==
  /\ EngineIdle
  /\ page = InitialPage
  /\ receipt \in ReceiptRequests

\* return res.status(status).json(...)
Respond(status) ==
  receipt' = [receipt EXCEPT !.pc = "done", !.sent = Append(@, Json(status))]

\* lines 378-383: catch (error) { console.error; return res.status(500).json() }
\* Once the head of the response has gone out, json() throws on setting a
\* header: nothing more is sent and the response is never ended.
Catch(stage) ==
  IF receipt.sent # <<>>
    THEN receipt' = [receipt EXCEPT !.pc = "crashed", !.error = stage]
    ELSE receipt' = [receipt EXCEPT !.pc = "done", !.error = stage,
                                    !.sent = <<Json(500)>>]

\* lines 57-63: the session check, then await storage.getRegistration
ReceiptStart ==
  /\ receipt.pc = "start"
  /\ IF receipt.athleteId = ""
       THEN Respond(401)
       ELSE receipt' = [receipt EXCEPT !.pc = "getRegistration"]
  /\ UNCHANGED <<engine, page>>

\* variant: the status is tested before the owner
RegistrationGuard_StatusFirst(athleteId, registration) ==
  IF ~ registration.found THEN 404
  ELSE IF registration.status # "confirmada" THEN 400
  ELSE IF registration.athleteId # athleteId THEN 403
  ELSE 0

\* lines 65-82: the status of the refusal, 0 when the registration passes
RegistrationGuard(athleteId, registration) ==
  IF ~ registration.found THEN 404
  ELSE IF registration.athleteId # athleteId THEN 403
  ELSE IF registration.status # "confirmada" THEN 400
  ELSE 0

\* line 63 resolves; lines 65-90 up to await Promise.all
GetRegistrationResolves ==
  /\ receipt.pc = "getRegistration"
  /\ LET refusal == RegistrationGuard(receipt.athleteId, receipt.registration)
     IN IF refusal # 0
          THEN Respond(refusal)
          ELSE receipt' = [receipt EXCEPT !.pc = "lookups"]
  /\ UNCHANGED <<engine, page>>

\* lines 84-109: Promise.all resolves; `complete` is event && modality && athlete
LookupsResolve(complete) ==
  /\ receipt.pc = "lookups"
  /\ IF complete
       THEN receipt' = [receipt EXCEPT !.pc = "qr"]
       ELSE Respond(404)
  /\ UNCHANGED <<engine, page>>

\* lines 111-231: the QR code resolves, the document is made, the headers are
\* set, doc.pipe(res), and the drawing runs up to the shirt-size lookup of
\* lines 236-240 or, without tamanhoCamisa, up to doc.end(); `drawn` is false
\* when a drawing call throws
QrResolves(drawn) ==
  /\ receipt.pc = "qr"
  /\ IF ~ drawn
       THEN receipt' = [receipt EXCEPT !.pc = "done", !.error = "draw", !.piped = TRUE,
                                       !.sent = <<Json(500)>>]
       ELSE receipt' = [receipt EXCEPT !.piped = TRUE,
                          !.pc = IF receipt.registration.tamanhoCamisa # ""
                                   THEN "shirtSizes" ELSE "ended"]
  /\ UNCHANGED <<engine, page>>

\* lines 236-376: the shirt sizes resolve and the rest is drawn up to doc.end()
ShirtSizesResolve(drawn) ==
  /\ receipt.pc = "shirtSizes"
  /\ IF drawn
       THEN receipt' = [receipt EXCEPT !.pc = "ended"]
       ELSE Catch("draw")
  /\ UNCHANGED <<engine, page>>

\* the awaited promise of the stage rejects (storage or QR failure)
Rejects(stage) ==
  /\ receipt.pc = stage
  /\ Catch(stage)
  /\ UNCHANGED <<engine, page>>

\* line 130: the piped document flows into res as soon as the handler yields
\* (at the await of lines 236-240, or after doc.end()): status line and
\* headers go out with the first chunk
Flush ==
  /\ receipt.piped
  /\ receipt.sent = <<>>
  /\ receipt.pc \in {"shirtSizes", "ended"}
  /\ receipt' = [receipt EXCEPT !.sent = <<Pdf>>]
  /\ UNCHANGED <<engine, page>>

ReceiptNext ==
  \/ ReceiptStart
  \/ GetRegistrationResolves
  \/ \E complete \in BOOLEAN : LookupsResolve(complete)
  \/ \E drawn \in BOOLEAN : QrResolves(drawn)
  \/ \E drawn \in BOOLEAN : ShirtSizesResolve(drawn)
  \/ \E stage \in {"getRegistration", "lookups", "qr", "shirtSizes"} : Rejects(stage)
  \/ Flush

ReceiptSpec == ReceiptInit /\ [][ReceiptNext]_vars

\* ---------------------------------------------------------------------------
\* Organizer registrations page (part_001).  `page` holds the useState values
\* and the loaded list, as the number of registrations of each class.
\* ---------------------------------------------------------------------------
ClassSize == 11
ITEMS_PER_PAGE_OPTIONS == {10, 20, 50, 100}

\* lines 194-207: the filter; a term is found in a name when it is that name
Matches(p, reg) ==
  /\ p.searchTerm = "" \/ reg.nome = p.searchTerm
  /\ p.statusFilter = "todos" \/ reg.status = p.statusFilter
  /\ p.modalityFilter = "todos" \/ reg.modalityName = p.modalityFilter

RECURSIVE CountIn(_, _)
CountIn(p, classes) ==
  IF classes = {} THEN 0
  ELSE LET c == CHOOSE x \in classes : TRUE
       IN (IF Matches(p, c) THEN p.registrations[c] ELSE 0) + CountIn(p, classes \ {c})

\* line 246: Math.ceil(sortedRegistrations.length / itemsPerPage)
totalPages(p) == (CountIn(p, Classes) + p.itemsPerPage - 1) \div p.itemsPerPage

PageInit ==
  /\ EngineIdle
  /\ receipt = NoReceipt
  /\ page = InitialPage

\* lines 210-218
handleSort(column) ==
  /\ page' = IF page.sortColumn = column
               THEN [page EXCEPT !.sortDirection = IF @ = "asc" THEN "desc" ELSE "asc",
                                 !.currentPage = 1]
               ELSE [page EXCEPT !.sortColumn = column, !.sortDirection = "desc",
                                 !.currentPage = 1]
  /\ UNCHANGED <<engine, receipt>>

\* lines 252-255
handleSearchChange(value) ==
  /\ page' = [page EXCEPT !.searchTerm = value, !.currentPage = 1]
  /\ UNCHANGED <<engine, receipt>>

\* lines 257-260, with setStatusFilter (line 515) or setModalityFilter (line 526)
handleFilterChange(setter, value) ==
  /\ page' = IF setter = "setStatusFilter"
               THEN [page EXCEPT !.statusFilter = value, !.currentPage = 1]
               ELSE [page EXCEPT !.modalityFilter = value, !.currentPage = 1]
  /\ UNCHANGED <<engine, receipt>>

\* lines 262-265
handleItemsPerPageChange(value) ==
  /\ page' = [page EXCEPT !.itemsPerPage = value, !.currentPage = 1]
  /\ UNCHANGED <<engine, receipt>>

\* lines 622-631: the button is there when totalPages > 1 and enabled off page 1
PreviousPage ==
  /\ totalPages(page) > 1
  /\ page.currentPage # 1
  /\ page' = [page EXCEPT !.currentPage = IF @ - 1 > 1 THEN @ - 1 ELSE 1]
  /\ UNCHANGED <<engine, receipt>>

\* lines 622, 636-641
NextPage ==
  /\ totalPages(page) > 1
  /\ page.currentPage # totalPages(page)
  /\ page' = [page EXCEPT !.currentPage =
                             IF @ + 1 < totalPages(page) THEN @ + 1 ELSE totalPages(page)]
  /\ UNCHANGED <<engine, receipt>>

\* lines 187-192: the query delivers a list; no state of the page is touched
Reload(data) ==
  /\ page' = [page EXCEPT !.registrations = data]
  /\ UNCHANGED <<engine, receipt>>

PageNext ==
  \/ \E column \in {"numeroInscricao", "nome", "status"} : handleSort(column)
  \/ \E value \in {"", "ana", "zz"} : handleSearchChange(value)
  \/ \E value \in {"todos", "confirmada", "pendente"} :
       handleFilterChange("setStatusFilter", value)
  \/ \E value \in {"todos", "5k", "10k"} : handleFilterChange("setModalityFilter", value)
  \/ \E value \in ITEMS_PER_PAGE_OPTIONS : handleItemsPerPageChange(value)
  \/ PreviousPage
  \/ NextPage
  \/ \E data \in [Classes -> {0, ClassSize}] : Reload(data)

PageSpec == PageInit /\ [][PageNext]_vars

TypeOK ==
  /\ pc \in {"start", "loop", "fetch", "json", "returned", "rejected", "done"}
  /\ eligible \in BOOLEAN
  /\ timerArmed \in BOOLEAN
  /\ inFlight \in BOOLEAN
  /\ idx \in 0..(Len(rules) + 1)

\* ---------------------------------------------------------------------------
\* Properties
\* ---------------------------------------------------------------------------
\* the rule of the validateExternalApi call in progress
CurrentRule == activeRules[idx]
GotStatus == response.kind = "status"

\* the error taxonomy: transport failure, timeout, 5xx, parse failure when the
\* comparison needs the body, unexpected exception
InfraFailure(ruleConfig, kind, status, bodyKind) ==
  \/ kind \in {"network", "timeout", "exception"}
  \/ (kind = "status" /\ status >= 500)
  \/ /\ kind = "status"
     /\ status # 404
     /\ status < 500
     /\ ruleConfig.validation.mode = "json_compare"
     /\ bodyKind = "unparsable"

InfraNow == InfraFailure(CurrentRule, response.kind, response.status, response.body.kind)
InfraOutcome(o) == InfraFailure(o.rule, o.cause.kind, o.cause.status, o.cause.body)

\* a rule that takes part in the check
Contributes(r) == r.enabled /\ r.request.url # NoUrl /\ r.type = "api_rest"

RECURSIVE FailMessages(_)
FailMessages(os) ==
  IF os = <<>> THEN <<>>
  ELSE LET o == os[Len(os)]
           before == FailMessages(SubSeq(os, 1, Len(os) - 1))
       IN IF ~ o.ok /\ o.message # "" THEN Append(before, o.message) ELSE before

\* the extracted maps of the outcomes, laid over one another in call order
RECURSIVE MergedData(_)
MergedData(os) ==
  IF os = <<>> THEN <<>>
  ELSE LET o == os[Len(os)]
           before == MergedData(SubSeq(os, 1, Len(os) - 1))
       IN IF o.extractedData.def
            THEN [k \in DOMAIN before \cup DOMAIN o.extractedData.map |->
                    IF k \in DOMAIN o.extractedData.map
                      THEN o.extractedData.map[k] ELSE before[k]]
            ELSE before

\* C1: when executeEligibilityCheck returns, every participating rule has been
\* evaluated and eligible is true exactly when every one of these calls
\* returned ok = true, wherever the failing rule stands in the list.
C1_EligibleIsConjunction ==
  pc = "done" =>
    /\ [i \in DOMAIN outcomes |-> outcomes[i].rule] = SelectSeq(rules, Contributes)
    /\ result.eligible <=> (\A i \in DOMAIN outcomes : outcomes[i].ok)

C1_Witness ==
  /\ pc = "done"
  /\ Len(outcomes) = 2
  /\ ~ outcomes[1].ok
  /\ outcomes[2].ok
  /\ ~ result.eligible

\* C2: a call that got a 404 response returns {ok: false, message:
\* rule.error_message}, whatever the validation mode, the allowed_status list
\* and on_error are, and never the on_error outcome of an infrastructure failure.
C2_NotFoundIsBusinessNegative ==
  (pc = "returned" /\ GotStatus /\ response.status = 404) =>
    /\ vres = Res(FALSE, CurrentRule.error_message, NoData)
    /\ response.body.kind = "none"

C2_Witness ==
  /\ pc = "returned"
  /\ GotStatus
  /\ response.status = 404
  /\ CurrentRule.on_error = "allow"
  /\ 404 \in Range(AllowedStatuses(CurrentRule))
  /\ ~ vres.ok

\* C3 as stated: in http_status mode, for every status the endpoint returns,
\* ok = true iff the status is in allowed_status (default [200]).
C3_Original ==
  (pc = "returned" /\ GotStatus /\ CurrentRule.validation.mode = "http_status") =>
    (vres.ok <=> response.status \in
       (IF CurrentRule.validation.allowed_status.def
          THEN Range(CurrentRule.validation.allowed_status.v) ELSE {200}))

\* C3 amended: in http_status mode, for every returned status other than 404
\* and below 500, ok = true iff the status is in allowed_status (default [200]).
C3_Amended ==
  (/\ pc = "returned"
   /\ GotStatus
   /\ CurrentRule.validation.mode = "http_status"
   /\ response.status # 404
   /\ response.status < 500) =>
    (vres.ok <=> response.status \in
       (IF CurrentRule.validation.allowed_status.def
          THEN Range(CurrentRule.validation.allowed_status.v) ELSE {200}))

C3_Witness ==
  /\ pc = "returned"
  /\ GotStatus
  /\ CurrentRule.validation.mode = "http_status"
  /\ CurrentRule.validation.allowed_status.def
  /\ response.status = 201
  /\ vres.ok

\* C4: in json_compare mode, for every response whose body was parsed as JSON
\* (any JSON value), ok = true iff getNestedValue(body, path) === value.
C4_CompareDecides ==
  (/\ pc = "returned"
   /\ CurrentRule.validation.mode = "json_compare"
   /\ response.body.kind = "json") =>
    (vres.ok <=>
       StrictEquals(getNestedValue(response.body.v,
                                   IF CurrentRule.validation.path.def
                                     THEN CurrentRule.validation.path.v ELSE <<"">>),
                    CurrentRule.validation.value))

\* C5: under on_error = "allow" a call that met an infrastructure failure
\* returns ok = true with the advisory message, and a check in which every
\* other rule passed returns eligible = true.
C5_AllowLetsThrough ==
  /\ (pc = "returned" /\ InfraNow /\ CurrentRule.on_error = "allow") =>
       vres = Res(TRUE, Advisory, NoData)
  /\ (/\ pc = "done"
      /\ \A i \in DOMAIN outcomes :
           \/ (InfraOutcome(outcomes[i]) /\ outcomes[i].rule.on_error = "allow")
           \/ (~ InfraOutcome(outcomes[i]) /\ outcomes[i].ok)) =>
       result.eligible

C5_Witness ==
  /\ pc = "done"
  /\ Len(outcomes) = 2
  /\ ~ InfraOutcome(outcomes[1])
  /\ outcomes[1].ok
  /\ InfraOutcome(outcomes[2])
  /\ outcomes[2].cause.kind = "timeout"
  /\ outcomes[2].rule.on_error = "allow"
  /\ result.eligible

\* the message of a rule blocked by policy
BlockMessage(ruleConfig) ==
  IF ruleConfig.error_message = "" THEN Fallback ELSE ruleConfig.error_message

\* C6: under any on_error other than "allow" a call that met an infrastructure
\* failure returns ok = false with rule.error_message, or the generic text when
\* that is unset, and the check returns eligible = false with that message
\* among its messages.
C6_BlockFails ==
  /\ (pc = "returned" /\ InfraNow /\ CurrentRule.on_error # "allow") =>
       vres = Res(FALSE, BlockMessage(CurrentRule), NoData)
  /\ pc = "done" =>
       \A i \in DOMAIN outcomes :
         (InfraOutcome(outcomes[i]) /\ outcomes[i].rule.on_error # "allow") =>
           /\ ~ result.eligible
           /\ BlockMessage(outcomes[i].rule) \in Range(result.messages)

C6_Witness ==
  /\ pc = "done"
  /\ Len(outcomes) = 1
  /\ outcomes[1].cause.kind = "status"
  /\ outcomes[1].cause.status = 500
  /\ outcomes[1].rule.on_error = "block"
  /\ outcomes[1].rule.error_message = ""
  /\ ~ result.eligible
  /\ result.messages = <<Fallback>>

\* C7: no call ends in a thrown exception or a rejected promise.
C7_NothingEscapes == pc # "rejected"

\* C8: when every rule of the list is disabled (or the list is empty) no
\* request is ever issued and the check returns {eligible: true, messages: []}.
C8_AllDisabled ==
  (\A i \in DOMAIN rules : ~ rules[i].enabled) =>
    /\ issued = <<>>
    /\ pc \in {"start", "done"}
    /\ pc = "done" => result = EligibilityResult(TRUE, <<>>, NoData)

C8_Witness ==
  /\ pc = "done"
  /\ Len(rules) = 2
  /\ \A i \in DOMAIN rules : ~ rules[i].enabled
  /\ result.set

\* C9: a disabled rule, a rule without request.url and a rule of another type
\* never contribute: requests are issued, in order, only for the rules left
\* when those are removed, only these rules have outcomes, and the result is
\* made of these outcomes alone.
C9_InactiveRulesIgnored ==
  /\ \A i \in DOMAIN issued : Contributes(issued[i])
  /\ \E n \in 0..Len(rules) : issued = SubSeq(SelectSeq(rules, Contributes), 1, n)
  /\ \A i \in DOMAIN outcomes : outcomes[i].rule = SelectSeq(rules, Contributes)[i]
  /\ pc = "done" =>
       /\ Len(outcomes) = Len(SelectSeq(rules, Contributes))
       /\ result.eligible = (\A i \in DOMAIN outcomes : outcomes[i].ok)
       /\ result.messages = FailMessages(outcomes)
       /\ result.extractedData.map = MergedData(outcomes)
       /\ result.extractedData.def = (DOMAIN MergedData(outcomes) # {})

C9_Witness ==
  /\ pc = "done"
  /\ Len(rules) = 2
  /\ ~ Contributes(rules[1])
  /\ rules[1].enabled
  /\ rules[1].request.url # NoUrl
  /\ Contributes(rules[2])
  /\ Len(issued) = 1
  /\ ~ result.eligible

\* C10: messages holds the messages of the failing rules, in rule order, and
\* nothing else; a passing rule adds no message.
C10_MessagesOfFailingRules ==
  pc = "done" => result.messages = FailMessages(outcomes)

C10_Witness ==
  /\ pc = "done"
  /\ Len(outcomes) = 2
  /\ outcomes[1].ok
  /\ ~ outcomes[2].ok
  /\ outcomes[2].rule.error_message # ""
  /\ ~ result.eligible
  /\ result.messages = <<outcomes[2].rule.error_message>>

\* the outcome of a call that sent a request
HadRequest(o) == o.cause.kind # "exception"

\* the endpoint's answer is a business negative: a 404, a failed allowlist
\* check, or a parsed body whose value at the path is not the expected one
BusinessNegative(ruleConfig, status, body) ==
  \/ status = 404
  \/ /\ status < 500
     /\ ruleConfig.validation.mode = "http_status"
     /\ status \notin Range(AllowedStatuses(ruleConfig))
  \/ /\ status < 500
     /\ ruleConfig.validation.mode = "json_compare"
     /\ body.kind = "json"
     /\ ~ StrictEquals(getNestedValue(body.v,
                                      IF ruleConfig.validation.path.def
                                        THEN ruleConfig.validation.path.v ELSE <<"">>),
                       ruleConfig.validation.value)

\* C11: a call whose answer is a business negative (404, status failing the
\* allowlist check, json_compare mismatch) returns {ok: false, message:
\* rule.error_message}; on_error has no part in it, so the result is the same
\* under "allow" and "block".
C11_BusinessNeverUnderPolicy ==
  (/\ pc = "returned"
   /\ GotStatus
   /\ BusinessNegative(CurrentRule, response.status, response.body)) =>
    vres = Res(FALSE, CurrentRule.error_message, NoData)

\* C12: a request is issued only when no request is in flight, no timer is
\* pending and every request issued before has its outcome recorded; while a
\* request is in flight exactly one issued request lacks its outcome.
C12_StrictlySequential ==
  /\ [](inFlight => Len(issued) = Len(SelectSeq(outcomes, HadRequest)) + 1)
  /\ [][Len(issued') > Len(issued) =>
          /\ ~ inFlight
          /\ ~ timerArmed
          /\ pc = "loop"
          /\ Len(SelectSeq(outcomes, HadRequest)) = Len(issued)
          /\ issued' = Append(issued, CurrentRule)]_vars

C12_Witness ==
  /\ pc = "fetch"
  /\ inFlight
  /\ Len(issued) = 2
  /\ Len(outcomes) = 1
  /\ outcomes[1].cause.kind = "timeout"

IsApiRest(r) == r.type = "api_rest"

\* C13: whatever the earlier outcomes were (failure, timeout, block), each
\* api_rest rule of the active list is called once, in list order: between
\* two rules the outcomes recorded are those of the api_rest rules before the
\* loop position, and the check returns only past the end of the list.
C13_NoShortCircuit ==
  /\ pc = "loop" =>
       [i \in DOMAIN outcomes |-> outcomes[i].rule]
         = SelectSeq(SubSeq(activeRules, 1, idx - 1), IsApiRest)
  /\ (pc = "done" /\ activeRules # <<>>) =>
       /\ idx = Len(activeRules) + 1
       /\ [i \in DOMAIN outcomes |-> outcomes[i].rule] = SelectSeq(activeRules, IsApiRest)

C13_Witness ==
  /\ pc = "done"
  /\ Len(outcomes) = 2
  /\ outcomes[1].cause.kind = "timeout"
  /\ ~ outcomes[1].ok
  /\ outcomes[2].cause.kind = "status"
  /\ outcomes[2].ok

\* C14: every call of validateExternalApi that awaits the endpoint (fetch or
\* the body) settles, given only that continuations run and armed timers fire.
C14_EveryCallSettles ==
  (pc \in {"fetch", "json"}) ~> (pc \in {"returned", "rejected"})

\* the last outcome that extracted path k
LastWith(k) ==
  CHOOSE j \in DOMAIN outcomes :
    /\ outcomes[j].extractedData.def
    /\ k \in DOMAIN outcomes[j].extractedData.map
    /\ \A l \in DOMAIN outcomes :
         (outcomes[l].extractedData.def /\ k \in DOMAIN outcomes[l].extractedData.map)
           => l <= j

\* C15: the extractedData of the result holds every path extracted by any
\* rule, with the value extracted by the last rule that extracted that path.
C15_LaterRuleWins ==
  pc = "done" =>
    \A i \in DOMAIN outcomes :
      outcomes[i].extractedData.def =>
        \A k \in DOMAIN outcomes[i].extractedData.map :
          /\ result.extractedData.def
          /\ k \in DOMAIN result.extractedData.map
          /\ result.extractedData.map[k] = outcomes[LastWith(k)].extractedData.map[k]

C15_Witness ==
  /\ pc = "done"
  /\ Len(outcomes) = 2
  /\ outcomes[1].extractedData.def
  /\ outcomes[2].extractedData.def
  /\ FieldNome \in DOMAIN outcomes[1].extractedData.map
  /\ FieldNome \in DOMAIN outcomes[2].extractedData.map
  /\ outcomes[1].extractedData.map[FieldNome] # outcomes[2].extractedData.map[FieldNome]
  /\ result.extractedData.map[FieldNome] = outcomes[2].extractedData.map[FieldNome]

\* the line shows the whole number of the athlete: in its CPF part, or as the
\* value it prints
ShowsRawCpf(line) ==
  /\ athlete.cpf.t = "str"
  /\ Len(StripNonDigits(athlete.cpf.chars)) = 11
  /\ \/ line.cpf \in {athlete.cpf.chars, StripNonDigits(athlete.cpf.chars)}
     \/ /\ StripNonDigits(athlete.cpf.chars) = StripNonDigits(CpfPunctuated)
        /\ line.value = JStr(CpfDigitsText)

\* C16: no console line written by the engine shows the athlete's unmasked
\* CPF, whatever the rule and whatever the endpoint answers.
C16_NoRawCpfInLogs ==
  \A i \in DOMAIN emitted : ~ ShowsRawCpf(emitted[i])

\* the canonical grouped mask DDD.***.***-DD
CanonicalMask(chars) ==
  LET digits == StripNonDigits(chars)
  IN IF Len(digits) < 11 THEN <<"*","*","*",".","*","*","*",".","*","*","*","-","*","*">>
     ELSE SubSeq(digits, 1, 3) \o <<".","*","*","*",".","*","*","*","-">> \o SubSeq(digits, Len(digits) - 1, Len(digits))

\* C17: the CPF part of every console line is the input with its non-digits
\* stripped, shown as "***.***.***-**" when fewer than 11 digits remain and
\* as DDD.***.***-DD (first three and last two digits) otherwise.
C17_MaskFormat ==
  \A i \in DOMAIN emitted :
    emitted[i].cpf # <<>> => emitted[i].cpf = CanonicalMask(athlete.cpf.chars)

NomeOnWire == <<"A",".","%","2","0","B","-","c">>
\* the url the claim expects for the two templates, given the text put in
\* place of {cpf}
ExpectedRawUrl(ruleConfig, cpfOnWire) ==
  IF ruleConfig.request.url = UrlTemplate
    THEN <<"h","t","t","p","s",":","/","/","x","/">> \o cpfOnWire
    ELSE <<"h","t","t","p","s",":","/","/","x","/","v","?","n","=">>
           \o (IF Knome \in Range(ruleConfig.request.params.v)
                 THEN NomeOnWire ELSE <<"{","n","o","m","e","}">>)
           \o <<"&","c","=">> \o cpfOnWire

\* C18 as stated: the value put in place of {cpf} is the cpf with every
\* non-digit character stripped, for every punctuated form; the values of
\* other keys are percent-encoded as they are.
C18_Original ==
  (request.set /\ athlete.cpf.t = "str" /\ CurrentRule.request.url \in {UrlTemplate, UrlQuery}) =>
    request.rawUrl = ExpectedRawUrl(CurrentRule, StripNonDigits(athlete.cpf.chars))

\* C18 amended: the value put in place of {cpf} is the cpf with its "." and
\* "-" characters removed, percent-encoded; the values of other keys are
\* percent-encoded as they are.
C18_Amended ==
  (request.set /\ athlete.cpf.t = "str" /\ CurrentRule.request.url \in {UrlTemplate, UrlQuery}) =>
    request.rawUrl =
      ExpectedRawUrl(CurrentRule, encodeURIComponent(StripDotsAndHyphens(athlete.cpf.chars)))

C18_Witness ==
  /\ request.set
  /\ athlete.cpf = CpfString(CpfPunctuated)
  /\ CurrentRule.request.url = UrlTemplate
  /\ request.rawUrl = <<"h","t","t","p","s",":","/","/","x","/","1","2","3","4","5","6","7","8","9","0","0">>

KeyValueOnWire == <<"s","3","%","2","F","c","r","%","3","D","t">>
NameOnWire(name) == IF name = KeyNameSpaced THEN <<"a","p","p","%","2","0","k","e","y">> ELSE name
HeaderName(auth) == IF auth.key_name # <<>> THEN auth.key_name ELSE HXApiKey
ParamName(auth) == IF auth.key_name # <<>> THEN auth.key_name ELSE QApiKey
Separator(url) == IF \E i \in DOMAIN url : url[i] = "?" THEN <<"&">> ELSE <<"?">>
HasKey(ruleConfig) == ruleConfig.request.auth.def /\ ruleConfig.request.auth.key_value # <<>>

\* what applyAuth does to the headers for the header-borne schemes, and that
\* it leaves the headers alone for api_key_query
AuthHeadersAsClaimed(auth) ==
  /\ auth.type = "api_key_header" =>
       /\ request.url = request.rawUrl
       /\ request.authHeaders = Assign(request.baseHeaders, HeaderName(auth), auth.key_value)
  /\ auth.type = "bearer_token" =>
       /\ request.url = request.rawUrl
       /\ request.authHeaders
            = Assign(request.baseHeaders, HAuthorization, BearerPrefix \o auth.key_value)
  /\ auth.type = "api_key_query" => request.authHeaders = request.baseHeaders

\* C19 as stated: with a non-empty key value, api_key_header and bearer_token
\* add exactly their header and leave the URL alone; api_key_query leaves the
\* headers alone and appends <key_name or "api_key">=<encoded key_value>,
\* after "?" when the URL has no query string and after "&" when it has one.
C19_Original ==
  (request.set /\ HasKey(CurrentRule)) =>
    /\ AuthHeadersAsClaimed(CurrentRule.request.auth)
    /\ CurrentRule.request.auth.type = "api_key_query" =>
         request.url = request.rawUrl \o Separator(request.rawUrl)
                         \o ParamName(CurrentRule.request.auth) \o <<"=">> \o KeyValueOnWire

\* C19 amended: as stated, except that api_key_query appends the
\* percent-encoded parameter name: <encoded (key_name or "api_key")>=<encoded
\* key_value>, after "&" when the URL holds a "?" and after "?" otherwise.
C19_Amended ==
  (request.set /\ HasKey(CurrentRule)) =>
    /\ AuthHeadersAsClaimed(CurrentRule.request.auth)
    /\ CurrentRule.request.auth.type = "api_key_query" =>
         request.url = request.rawUrl \o Separator(request.rawUrl)
                         \o NameOnWire(ParamName(CurrentRule.request.auth))
                         \o <<"=">> \o KeyValueOnWire

C19_Witness ==
  /\ request.set
  /\ CurrentRule.request.auth = Auth("api_key_query", KeyNameSpaced, KeyValue)
  /\ CurrentRule.request.url = UrlQuery
  /\ athlete.cpf = CpfString(CpfPunctuated)
  /\ Knome \notin Range(CurrentRule.request.params.v)
  /\ request.url = <<"h","t","t","p","s",":","/","/","x","/","v","?","n","=","{","n","o","m","e","}","&","c","=","1","2","3","4","5","6","7","8","9","0","0","&","a","p","p","%","2","0","k","e","y","=","s","3","%","2","F","c","r","%","3","D","t">>
  /\ request.authHeaders = request.baseHeaders

\* C20: no step changes the athlete record or the rule list handed in, and
\* the rule objects the loop works on stay as they were configured
\* (request.headers, request.params and validation included).
C20_InputsNeverMutated ==
  /\ [][athlete' = athlete /\ rules' = rules]_vars
  /\ [](pc # "start" => activeRules = SelectSeq(rules, IsActive))

C20_Witness ==
  /\ pc = "fetch"
  /\ request.method = "POST"
  /\ request.headersRef = "base"
  /\ CurrentRule.request.headers.def
  /\ HContentType \in DOMAIN request.headers
  /\ HContentType \notin DOMAIN CurrentRule.request.headers.v
  /\ request.body.def

\* the cases in which no scheme is applied
KnownSchemes == {"api_key_header", "api_key_query", "bearer_token"}
Unauthenticated(auth) ==
  \/ ~ auth.def
  \/ auth.type = "none"
  \/ auth.key_value = <<>>
  \/ auth.type \notin KnownSchemes
Misconfigured(auth) == auth.def /\ auth.type # "none" /\ auth.key_value = <<>>

\* C21: when auth is absent, of type "none", of an unknown type, or has an
\* empty key value, applyAuth hands back the URL and the very headers object it
\* was given; the empty key value is the only case that logs a warning, nothing
\* is thrown, and the request goes out without authentication.
C21_PassThrough ==
  (request.set /\ Unauthenticated(CurrentRule.request.auth)) =>
    /\ request.url = request.rawUrl
    /\ request.authHeaders = request.baseHeaders
    /\ request.headersRef # "auth"
    /\ HAuthorization \notin DOMAIN request.headers
    /\ request.warned <=> Misconfigured(CurrentRule.request.auth)
    /\ response.kind # "exception"
    /\ pc = "fetch" =>
         /\ inFlight
         /\ emitted = IF request.warned THEN <<Line("warn", <<>>, Undefined)>> ELSE <<>>

C21_Witness ==
  /\ pc = "fetch"
  /\ inFlight
  /\ request.set
  /\ CurrentRule.request.auth = Auth("bearer_token", KeyName, <<>>)
  /\ request.warned
  /\ request.url = request.rawUrl
  /\ request.headers = request.baseHeaders

\* the placeholder of a key, and the keys that get into the parameter map
Placeholder(key) == <<"{">> \o key \o <<"}">>
Mapped(key) ==
  /\ key \in Range(CurrentRule.request.params.v)
  /\ AthleteField(athlete, key).t = "str"

\* C22: in the URL that sanitizeUrl returns no placeholder of a mapped key is
\* left, however often the template names it, and the placeholder of a key
\* that is not in the map stays as it was.
C22_EveryOccurrence ==
  request.set =>
    \A key \in {Kcpf, Knome} :
      IF Mapped(key)
        THEN IndexOf(request.rawUrl, Placeholder(key)) = 0
        ELSE IndexOf(CurrentRule.request.url, Placeholder(key)) # 0
               => IndexOf(request.rawUrl, Placeholder(key)) # 0

\* the part of C22 about the keys that are not in the map
C22_UnmappedStay ==
  request.set =>
    \A key \in {Kcpf, Knome} :
      (~ Mapped(key) /\ IndexOf(CurrentRule.request.url, Placeholder(key)) # 0)
        => IndexOf(request.rawUrl, Placeholder(key)) # 0

ParseFailed == pc = "returned" /\ response.body.kind = "unparsable"

\* C23: a body that does not parse is an infrastructure failure under
\* json_compare, settled by on_error (allow: ok with the advisory message,
\* otherwise: not ok); under http_status with save_fields it only means that
\* no data is extracted, and the verdict is the one of the status allowlist.
C23_ParseFailure ==
  ParseFailed =>
    /\ CurrentRule.validation.mode = "json_compare" =>
         vres = IF CurrentRule.on_error = "allow"
                  THEN Res(TRUE, Advisory, NoData)
                  ELSE Res(FALSE, BlockMessage(CurrentRule), NoData)
    /\ CurrentRule.validation.mode = "http_status" =>
         /\ Len(CurrentRule.save_fields) > 0
         /\ vres.ok <=> response.status \in Range(AllowedStatuses(CurrentRule))
         /\ vres.message = IF vres.ok THEN "" ELSE CurrentRule.error_message
         /\ vres.extractedData = NoData

C23_Witness ==
  /\ ParseFailed
  /\ CurrentRule.validation.mode = "http_status"
  /\ CurrentRule.on_error = "block"
  /\ response.status = 201
  /\ 201 \in Range(AllowedStatuses(CurrentRule))
  /\ vres.ok

\* the value of a body at a path of one or two segments
ValueAt(body, path) ==
  IF Len(path) = 1 THEN GetProp(body, path[1])
  ELSE GetProp(GetProp(body, path[1]), path[2])
Defined(body, path) == ValueAt(body, path) # Undefined

\* C24: a call returns extracted data only with ok = true, save_fields
\* non-empty and a parsed body; the map holds exactly the save_fields paths
\* that resolve to a defined value (a path through null or through a missing
\* key does not), each with that value; a failing rule has no extracted data
\* and what the check returns comes from the successful outcomes alone.
C24_ExtractionOnlyOnSuccess ==
  /\ (pc = "returned" /\ vres.extractedData.def) =>
       /\ vres.ok
       /\ Len(CurrentRule.save_fields) > 0
       /\ response.body.kind = "json"
       /\ DOMAIN vres.extractedData.map
            = {path \in Range(CurrentRule.save_fields) : Defined(response.body.v, path)}
       /\ \A path \in DOMAIN vres.extractedData.map :
            vres.extractedData.map[path] = ValueAt(response.body.v, path)
  /\ \A i \in DOMAIN outcomes : ~ outcomes[i].ok => ~ outcomes[i].extractedData.def
  /\ \A path \in DOMAIN extractedData :
       \E i \in DOMAIN outcomes :
         /\ outcomes[i].ok
         /\ outcomes[i].extractedData.def
         /\ path \in DOMAIN outcomes[i].extractedData.map

C24_Witness ==
  /\ pc = "returned"
  /\ CurrentRule.save_fields = <<FieldNome, PathApto, PathPlanoId>>
  /\ response.body.v = BodyStr
  /\ vres.ok
  /\ vres.extractedData = Data([path \in {FieldNome, PathApto} |->
                                 IF path = FieldNome THEN JStr("Bia") ELSE JStr("true")])

\* C25: the timer of a call is armed only while its fetch is pending: once
\* the call has got past fetch by any path (status line, transport failure,
\* timeout, parse failure, exception) no timer is left that could fire into the
\* rest of the check or into the call of a later rule.
C25_TimerReleased ==
  /\ pc # "fetch" => ~ timerArmed
  /\ timerArmed => (inFlight /\ Len(issued) = Len(outcomes) + 1)

C25_Witness ==
  /\ pc = "returned"
  /\ response.body.kind = "unparsable"
  /\ ~ timerArmed
  /\ Len(outcomes) = 1
  /\ outcomes[1].cause.kind = "network"

\* C26: the check returns eligible = false exactly when messages is not
\* empty: every failing rule has put a message there, whatever its
\* error_message is, and the advisory message of a rule let through by
\* on_error = "allow" is never among them.
C26_IneligibleIffMessages ==
  pc = "done" =>
    /\ ~ result.eligible <=> result.messages # <<>>
    /\ Len(result.messages) = Cardinality({i \in DOMAIN outcomes : ~ outcomes[i].ok})
    /\ Advisory \notin Range(result.messages)

\* the part of C26 about the advisory message, and the direction that holds
C26_MessagesImplyIneligible ==
  pc = "done" =>
    /\ result.messages # <<>> => ~ result.eligible
    /\ Advisory \notin Range(result.messages)

\* the features the two implementations share
Shared(ruleConfig) ==
  /\ ruleConfig.request.method \in {"", "GET"}
  /\ ~ ruleConfig.request.auth.def
  /\ ruleConfig.save_fields = <<>>
ServiceOutcome == ServiceValidateExternalApi(CurrentRule, athlete, response)

\* C27: for a rule with method GET, no auth and no save_fields, and for
\* whatever the endpoint does, the validateExternalApi of the service returns
\* the same ok and message as the one of the route, and leaves by an
\* exception when the one of the route does.
C27_SameVerdict ==
  /\ (pc = "returned" /\ Shared(CurrentRule)) =>
       /\ ServiceOutcome.kind = "return"
       /\ ServiceOutcome.res.ok = vres.ok
       /\ ServiceOutcome.res.message = vres.message
  /\ (pc = "rejected" /\ Shared(CurrentRule)) => ServiceOutcome.kind = "throw"

\* the part of C27 that holds: the two agree whenever the parsed body is truthy
\* or no body is parsed
C27_SameVerdictOnTruthyBody ==
  (/\ pc = "returned"
   /\ Shared(CurrentRule)
   /\ response.body.kind = "json" => Truthy(response.body.v)) =>
    /\ ServiceOutcome.kind = "return"
    /\ ServiceOutcome.res.ok = vres.ok
    /\ ServiceOutcome.res.message = vres.message

\* the receipt request has got past the lookup of the registration
RegistrationLooked ==
  /\ receipt.athleteId # ""
  /\ receipt.pc \notin {"idle", "start", "getRegistration"}
  /\ receipt.error # "getRegistration"
OwnRegistration == receipt.registration.athleteId = receipt.athleteId

\* C28: the receipt route starts a PDF only for a session with an athleteId,
\* a registration that exists, belongs to that athlete and is "confirmada";
\* otherwise the one response is 401, 404, 403 or 400, the first check that
\* fails deciding, in that order.
C28_GuardOrder ==
  /\ (receipt.piped \/ Pdf \in Range(receipt.sent)) =>
       /\ receipt.athleteId # ""
       /\ receipt.registration.found
       /\ OwnRegistration
       /\ receipt.registration.status = "confirmada"
  /\ (receipt.pc \notin {"idle", "start"} /\ receipt.athleteId = "") =>
       receipt.sent = <<Json(401)>>
  /\ RegistrationLooked =>
       /\ ~ receipt.registration.found => receipt.sent = <<Json(404)>>
       /\ (receipt.registration.found /\ ~ OwnRegistration) => receipt.sent = <<Json(403)>>
       /\ (/\ receipt.registration.found
           /\ OwnRegistration
           /\ receipt.registration.status # "confirmada") => receipt.sent = <<Json(400)>>

C28_Witness ==
  /\ receipt.pc = "done"
  /\ receipt.athleteId = "a1"
  /\ receipt.registration.found
  /\ receipt.registration.athleteId = "a2"
  /\ receipt.registration.status = "pendente"
  /\ receipt.sent = <<Json(403)>>

\* C29: a request gets one response, and when a storage lookup, the QR code
\* or the drawing fails that response is the 500 JSON error and no PDF.
C29_SingleResponse ==
  /\ Len(receipt.sent) <= 1
  /\ receipt.error # "none" => receipt.sent = <<Json(500)>>

\* the part of C29 that holds: never two responses, and no JSON body behind
\* the head of the PDF
C29_NothingAfterPdf ==
  /\ Len(receipt.sent) <= 1
  /\ Pdf \in Range(receipt.sent) => receipt.sent = <<Pdf>>

\* C30: whatever the organizer does on the page and whatever list a reload
\* delivers, currentPage is between 1 and max(1, totalPages).
C30_PageInRange ==
  /\ page.currentPage >= 1
  /\ page.currentPage <= (IF totalPages(page) > 1 THEN totalPages(page) ELSE 1)

\* the part of C30 that holds: a change of the search term, of a filter, of
\* the sort column or direction, or of the page size puts currentPage to 1
C30_ChangesReset ==
  [][(\/ page'.searchTerm # page.searchTerm
      \/ page'.statusFilter # page.statusFilter
      \/ page'.modalityFilter # page.modalityFilter
      \/ page'.sortColumn # page.sortColumn
      \/ page'.sortDirection # page.sortDirection
      \/ page'.itemsPerPage # page.itemsPerPage) => page'.currentPage = 1]_vars

====
